---- MODULE Spec2Model ----
(***************************************************************************)
(* A model of pullman.py: the ghstack pull-request resolver with its       *)
(* on-disk cache, and the harvester of the commands of failed CI jobs.     *)
(*                                                                         *)
(* Python strings are sequences of one-character strings, so that split,   *)
(* partition, startswith, `in` and the regular expression are computed on  *)
(* the characters as the code computes them.                               *)
(***************************************************************************)
EXTENDS Integers, Sequences, FiniteSets, TLC

(***************************************************************************)
(* Python's str operations.                                                *)
(***************************************************************************)
Digits == {"0", "1", "2", "3", "4", "5", "6", "7", "8", "9"}

UpperOrUnderscore ==
    {"A", "B", "C", "D", "E", "F", "G", "H", "I", "J", "K", "L", "M", "N", "O",
     "P", "Q", "R", "S", "T", "U", "V", "W", "X", "Y", "Z", "_"}

MinOf(S) == CHOOSE i \in S : \A j \in S : i <= j

\* s[lo - 1:hi], which takes what there is when s is shorter
Slice(s, lo, hi) == SubSeq(s, lo, IF hi < Len(s) THEN hi ELSE Len(s))

\* s.startswith(p)
StartsWith(s, p) == Len(p) <= Len(s) /\ SubSeq(s, 1, Len(p)) = p

\* s.find(p) + 1: the first position at which p occurs in s, 0 when it does not
Find(s, p) ==
    LET at == {i \in 1..(Len(s) - Len(p) + 1) : SubSeq(s, i, i + Len(p) - 1) = p}
    IN  IF at = {} THEN 0 ELSE MinOf(at)

\* p in s
Contains(s, p) == Find(s, p) # 0

\* s.partition(sep)
Partition(s, sep) ==
    LET i == Find(s, sep)
    IN  IF i = 0 THEN <<s, <<>>, <<>>>>
        ELSE <<SubSeq(s, 1, i - 1), sep, SubSeq(s, i + Len(sep), Len(s))>>

\* s.split(ch) for a separator of one character
RECURSIVE Split(_, _)
Split(s, ch) ==
    LET i == Find(s, <<ch>>)
    IN  IF i = 0 THEN <<s>>
        ELSE <<SubSeq(s, 1, i - 1)>> \o Split(SubSeq(s, i + 1, Len(s)), ch)

\* s.split(): the words between runs of blanks, none of them empty
RECURSIVE SplitWords(_)
SplitWords(s) ==
    IF s = <<>> THEN <<>>
    ELSE IF Head(s) = " " THEN SplitWords(Tail(s))
    ELSE LET i == Find(s, <<" ">>)
         IN  IF i = 0 THEN <<s>>
             ELSE <<SubSeq(s, 1, i - 1)>> \o SplitWords(SubSeq(s, i + 1, Len(s)))

\* sep.join(words)
RECURSIVE Join(_, _)
Join(words, sep) ==
    IF words = <<>> THEN <<>>
    ELSE IF Len(words) = 1 THEN words[1]
    ELSE words[1] \o sep \o Join(Tail(words), sep)

\* s.isnumeric(), over the ASCII characters of the model
IsNumeric(s) == Len(s) > 0 /\ \A i \in 1..Len(s) : s[i] \in Digits

DigitValue(c) ==
    CASE c = "0" -> 0 [] c = "1" -> 1 [] c = "2" -> 2 [] c = "3" -> 3 [] c = "4" -> 4
      [] c = "5" -> 5 [] c = "6" -> 6 [] c = "7" -> 7 [] c = "8" -> 8 [] c = "9" -> 9

\* int(s) of a numeric s
RECURSIVE ToInt(_)
ToInt(s) ==
    IF s = <<>> THEN 0
    ELSE 10 * ToInt(SubSeq(s, 1, Len(s) - 1)) + DigitValue(s[Len(s)])

\* The sequences over S of a length from lo to hi.
SeqsOf(S, lo, hi) == UNION {[1..n -> S] : n \in lo..hi}

(***************************************************************************)
(* Outcomes: what a call returns or raises.  exc is "none" for a return;   *)
(* a raised exception carries its message, e.args[0].  The messages of the *)
(* exceptions Python itself raises are read by no code and are left empty. *)
(***************************************************************************)
Return(v) == [exc |-> "none", val |-> v, msg |-> <<>>]
Raise(e, m) == [exc |-> e, val |-> <<>>, msg |-> m]
NotRun == [exc |-> "not run", val |-> <<>>, msg |-> <<>>]

VARIABLES
    \* PullRequest._user_index
    ref,            \* PullRequest.ref of the entity whose reference is parsed
    user_index,     \* the outcome of PullRequest._user_index
    \* _get_command
    lines,          \* the lines of the log of a job
    command,        \* the outcome of _get_command
    \* run_error_command
    commands,       \* the (command, job_id) pairs _failed_test_commands yields
    all_env_combos, \* args.all_env_combos
    sort,           \* args.sort
    d,              \* the dict of the deduplication, in insertion order
    pos,            \* how many pairs the deduplication loop has taken
    printed,        \* the lines printed to the file
    epc,            \* where run_error_command is
    \* _get_failures
    seconds,        \* the wait budget, args.time
    jobs,           \* the job list of the last fetch
    fetches,        \* how many times the job list was fetched
    sleeps,         \* how many times time.sleep returned
    failed,         \* the list _get_failures returns
    hpc,            \* where _get_failures is
    \* PullRequests.__call__
    file,           \* the cache file: whether it exists, and the members of the JSON
                    \* object it holds (<<>> is the text {})
    branches,       \* the lines git branch -r prints
    fetch,          \* args.fetch
    ignore_cache,   \* args.ignore_cache
    rewrite_cache,  \* args.rewrite_cache
    pull,           \* args.pull
    user,           \* PullRequests.user
    list_args,      \* args of the list command: search, all, closed, sort, reverse
    has_pulls,      \* whether "pulls" is in self.__dict__
    pulls,          \* self.pulls: the dict user -> [PullRequest], in insertion order
    built,          \* whether this run enumerated the branches to build self.pulls
    result,         \* what the command printed or raised
    matched,        \* the outcome of _matching_pull: the place of the entity found
    exit_msg,       \* the message of sys.exit
    trace,          \* the steps of this run, in order
    written,        \* the collection the last save() of the model wrote, if any
    pc              \* where __call__ is

refVars == <<ref, user_index>>
cmdVars == <<lines, command>>
errVars == <<commands, all_env_combos, sort, d, pos, printed, epc>>
pollVars == <<seconds, jobs, fetches, sleeps, failed, hpc>>
argVars == <<fetch, ignore_cache, rewrite_cache, pull, user, list_args>>
runVars == <<file, branches, argVars, has_pulls, pulls, built, matched, result, exit_msg, trace, written, pc>>
vars == <<refVars, cmdVars, errVars, pollVars, runVars>>

\* The state of each part while another part is the one under study.
RefIdle == ref = <<>> /\ user_index = NotRun
CmdIdle == lines = <<>> /\ command = NotRun
ErrIdle ==
    /\ commands = <<>> /\ all_env_combos = FALSE /\ sort = FALSE
    /\ d = <<>> /\ pos = 0 /\ printed = <<>> /\ epc = "idle"
PollIdle ==
    /\ seconds = 0 /\ jobs = <<>> /\ fetches = 0 /\ sleeps = 0
    /\ failed = <<>> /\ hpc = "idle"
RunIdle ==
    /\ file = [exists |-> FALSE, text |-> <<>>] /\ branches = <<>>
    /\ fetch = FALSE /\ ignore_cache = FALSE /\ rewrite_cache = FALSE
    /\ pull = <<>> /\ user = <<>>
    /\ list_args = [search |-> <<>>, all |-> FALSE, closed |-> FALSE, sort |-> FALSE,
                    reverse |-> FALSE]
    /\ has_pulls = FALSE /\ pulls = <<>> /\ built = FALSE
    /\ matched = NotRun /\ result = NotRun /\ exit_msg = <<>> /\ trace = <<>>
    /\ written = [by_save |-> FALSE, pulls |-> <<>>]
    /\ pc = "idle"

(***************************************************************************)
(* PullRequest._user_index                                                 *)
(***************************************************************************)
UPSTREAM == <<"u", "p", "s", "t", "r", "e", "a", "m">>
WAITING_FOR_ORIG ==
    <<"W", "a", "i", "t", "i", "n", "g", " ", "f", "o", "r", " ",
      "o", "r", "i", "g", " ", "b", "r", "a", "n", "c", "h">>
DO_NOT_UNDERSTAND ==
    <<"D", "o", " ", "n", "o", "t", " ", "u", "n", "d", "e", "r", "s", "t", "a", "n", "d", " ",
      "g", "i", "t", " ", "r", "e", "f", "e", "r", "e", "n", "c", "e", " ", "'">>
QUOTE == <<"'">>
GH == <<"g", "h">>
ORIG == <<"o", "r", "i", "g">>
N12 == <<"1", "2">>

\* The mutant of UserIndex that does not look at the remote.
UserIndexAnyRemote(r) ==
    LET parts == Split(r, "/")
    IN  IF Len(parts) = 5
        THEN IF parts[5] # ORIG
             THEN Raise("PullError", WAITING_FOR_ORIG)
             ELSE IF parts[2] = GH /\ IsNumeric(parts[4])
                  THEN Return(<<parts[3], ToInt(parts[4])>>)
                  ELSE Raise("PullError", DO_NOT_UNDERSTAND \o r \o QUOTE)
        ELSE Raise("PullError", DO_NOT_UNDERSTAND \o r \o QUOTE)

UserIndex(r) ==
    LET parts == Split(r, "/")
    IN  IF Len(parts) = 5
        THEN IF parts[5] # ORIG
             THEN Raise("PullError", WAITING_FOR_ORIG)
             ELSE IF parts[1] = UPSTREAM /\ parts[2] = GH /\ IsNumeric(parts[4])
                  THEN Return(<<parts[3], ToInt(parts[4])>>)
                  ELSE Raise("PullError", DO_NOT_UNDERSTAND \o r \o QUOTE)
        ELSE Raise("PullError", DO_NOT_UNDERSTAND \o r \o QUOTE)

\* The segments the references of the model are made of.
Segments == {UPSTREAM, GH, N12, <<"1", "a">>, ORIG}

MaxSegments == 6

InitRef ==
    /\ \E parts \in SeqsOf(Segments, 3, MaxSegments) : ref = Join(parts, <<"/">>)
    /\ user_index = NotRun
    /\ CmdIdle /\ ErrIdle /\ PollIdle /\ RunIdle

GetUserIndex ==
    /\ user_index = NotRun
    /\ user_index' = UserIndex(ref)
    /\ UNCHANGED <<ref, cmdVars, errVars, pollVars, runVars>>

NextRef == GetUserIndex

SpecRef == InitRef /\ [][NextRef]_vars

\* A reference of the shape upstream/gh/<user>/<n>/orig, written without split.
RefOfShape(r, usr, n) ==
    r = UPSTREAM \o <<"/">> \o GH \o <<"/">> \o usr \o <<"/">> \o n \o <<"/">> \o ORIG

Slashes(r) == Cardinality({i \in 1..Len(r) : r[i] = "/"})

EndsWith(s, p) == Len(p) <= Len(s) /\ SubSeq(s, Len(s) - Len(p) + 1, Len(s)) = p

\* C10, as amended: _user_index returns (user, n) exactly for the references
\* upstream/gh/<user>/<n>/orig with a numeric n; a reference of five segments whose
\* last is not orig fails with the PullError "Waiting for orig branch", which does
\* not name the reference; every other reference fails with the PullError "Do not
\* understand git reference", which names it.
C10_UserIndex ==
    user_index # NotRun =>
        /\ user_index.exc = "none" <=>
              \E usr \in Segments, n \in Segments : IsNumeric(n) /\ RefOfShape(ref, usr, n)
        /\ \A usr \in Segments : RefOfShape(ref, usr, N12) => user_index.val = <<usr, 12>>
        /\ user_index.exc # "none" =>
              /\ user_index.exc = "PullError"
              /\ IF Slashes(ref) = 4 /\ ~EndsWith(ref, <<"/">> \o ORIG)
                 THEN user_index.msg = WAITING_FOR_ORIG
                 ELSE user_index.msg = DO_NOT_UNDERSTAND \o ref \o QUOTE

\* A reference of five segments that does not end in orig has been refused.
C10_Witness ==
    /\ user_index.exc = "PullError"
    /\ Slashes(ref) = 4
    /\ StartsWith(ref, UPSTREAM \o <<"/">> \o GH \o <<"/">>)
    /\ ~EndsWith(ref, <<"/">> \o ORIG)

\* C10 as claimed: every reference that is refused is refused with an error that
\* names the reference.
C10_ErrorNamesRef ==
    user_index.exc \notin {"none", "not run"} =>
        (user_index.exc = "PullError" /\ Contains(user_index.msg, ref))

(***************************************************************************)
(* _get_ghstack_message, over what git log prints.                         *)
(***************************************************************************)
PULL_PREFIX ==
    <<"h", "t", "t", "p", "s", ":", "/", "/", "g", "i", "t", "h", "u", "b", ".", "c", "o", "m", "/",
      "p", "y", "t", "o", "r", "c", "h", "/", "p", "y", "t", "o", "r", "c", "h", "/",
      "p", "u", "l", "l", "/">>
GHSTACK_SOURCE ==
    <<"g", "h", "s", "t", "a", "c", "k", "-", "s", "o", "u", "r", "c", "e", "-", "i", "d", ":">>
PULL_REQUEST_RESOLVED ==
    <<"P", "u", "l", "l", " ", "R", "e", "q", "u", "e", "s", "t", " ",
      "r", "e", "s", "o", "l", "v", "e", "d", ":">>
INDENT == <<" ", " ", " ", " ">>

\* s.strip(), the blank being the only white space of the model
RECURSIVE Strip(_)
Strip(s) ==
    IF s = <<>> THEN s
    ELSE IF Head(s) = " " THEN Strip(Tail(s))
    ELSE IF s[Len(s)] = " " THEN Strip(SubSeq(s, 1, Len(s) - 1))
    ELSE s

\* while lines and not lines[-1].strip(): lines.pop()
RECURSIVE PopBlankLines(_)
PopBlankLines(ls) ==
    IF ls # <<>> /\ Strip(ls[Len(ls)]) = <<>>
    THEN PopBlankLines(SubSeq(ls, 1, Len(ls) - 1))
    ELSE ls

\* The body of _get_ghstack_message after _run: log is what git log returned or
\* raised.
GhstackMessageOfLog(log) ==
    IF log.exc # "none" THEN log
    ELSE
    LET indented == SelectSeq(log.val, LAMBDA l : Slice(l, 1, 4) = INDENT)
        body == [i \in 1..Len(indented) |-> SubSeq(indented[i], 5, Len(indented[i]))]
        resolved == [i \in 1..Len(body) |-> Strip(Partition(body[i], PULL_REQUEST_RESOLVED)[3])]
        urls == SelectSeq(resolved, LAMBDA u : u # <<>>)
        sources == {i \in 1..Len(body) : StartsWith(body[i], GHSTACK_SOURCE)}
        \* lines[:end], end being -1 when no line starts with the source marker
        cut == IF sources = {} THEN SubSeq(body, 1, Len(body) - 1)
               ELSE SubSeq(body, 1, MinOf(sources) - 1)
        number == Strip(Partition(urls[1], PULL_PREFIX)[3])
    IN  IF body = <<>> THEN Raise("AssertionError", <<>>)
        ELSE IF urls = <<>>
             THEN Raise("PullError",
                        <<"n", "o", "t", " ", "a", " ", "g", "h", "s", "t", "a", "c", "k", " ",
                          "p", "u", "l", "l", " ", "r", "e", "q", "u", "e", "s", "t">>)
        ELSE IF Len(urls) > 1
             THEN Raise("PullError",
                        <<"M", "a", "l", "f", "o", "r", "m", "e", "d", " ", "g", "h", "s", "t",
                          "a", "c", "k", " ", "p", "u", "l", "l", " ", "r", "e", "q", "u", "s", "t">>)
        ELSE IF ~(IsNumeric(number) /\ Len(number) \in {6, 7})
             THEN Raise("AssertionError", number)
        ELSE Return(<<number, PopBlankLines(cut)>>)

(***************************************************************************)
(* The repository of the model: the remote branches and commits git knows. *)
(***************************************************************************)
REC == <<"r", "e", "c">>
FIX_A == <<"f", "i", "x", " ", "a">>
FIX_B == <<"f", "i", "x", " ", "b">>
MERGE == <<"M", "e", "r", "g", "e">>
P123456 == <<"1", "2", "3", "4", "5", "6">>
P123457 == <<"1", "2", "3", "4", "5", "7">>
P123458 == <<"1", "2", "3", "4", "5", "8">>
P123459 == <<"1", "2", "3", "4", "5", "9">>
HEAD == <<"H", "E", "A", "D">>
MAIN == <<"m", "a", "i", "n">>
DUP == <<"d", "u", "p">>

OrigRef(usr, index) == Join(<<UPSTREAM, GH, usr, index, ORIG>>, <<"/">>)
R1 == OrigRef(REC, <<"1">>)
R2 == OrigRef(REC, <<"2">>)
R3 == OrigRef(REC, <<"3">>)
R4 == OrigRef(REC, <<"4">>)
R5 == OrigRef(REC, <<"5">>)
B1 == OrigRef(<<"b", "o", "b">>, <<"1">>)

\* What git log --pretty=medium -1 prints for a commit with these message lines.
MediumLog(message) ==
    <<<<"c", "o", "m", "m", "i", "t", " ", "1", "f">>, <<>>>>
    \o [i \in 1..Len(message) |-> INDENT \o message[i]]

ResolvedLine(number) == PULL_REQUEST_RESOLVED \o <<" ">> \o PULL_PREFIX \o number

\* The message of a ghstack commit.
GhstackCommit(subject, number) ==
    <<subject, <<>>, GHSTACK_SOURCE \o <<" ", "x", "1">>, ResolvedLine(number)>>

\* _run(f"git log --pretty=medium -1 {name}", print_error=False)
GitLog(name) ==
    CASE name = R1 -> Return(MediumLog(GhstackCommit(FIX_A, P123456)))
      [] name = R2 -> Return(MediumLog(GhstackCommit(FIX_B, P123457)))
      [] name = R3 ->
            Return(MediumLog(GhstackCommit(FIX_A \o <<" ", "a", "g", "a", "i", "n">>, P123458)))
      [] name = R4 -> Return(MediumLog(<<MERGE>>))
      [] name = B1 ->
            Return(MediumLog(GhstackCommit(<<"b", "o", "b", " ", "f", "i", "x">>, P123459)))
      [] name = HEAD -> Return(MediumLog(GhstackCommit(FIX_B, P123457)))
      [] name = MAIN -> Return(MediumLog(<<MERGE>>))
      [] name = DUP ->
            Return(MediumLog(<<MERGE, ResolvedLine(P123456), ResolvedLine(P123457)>>))
      [] OTHER -> Raise("CalledProcessError", <<>>)


\* _get_ghstack_message(ref) for each of them.
GhstackMessages ==
    [name \in {R1, R2, R3, R4, R5, B1, HEAD, MAIN, DUP, FIX_B, P123456, P123458} |->
        GhstackMessageOfLog(GitLog(name))]

GetGhstackMessage(name) ==
    IF name \in DOMAIN GhstackMessages THEN GhstackMessages[name]
    ELSE GhstackMessageOfLog(GitLog(name))

(***************************************************************************)
(* _get_command                                                            *)
(***************************************************************************)
COMMAND ==
    <<"T", "o", " ", "e", "x", "e", "c", "u", "t", "e", " ", "t", "h", "i", "s", " ",
      "t", "e", "s", "t", ",", " ", "r", "u", "n", " ", "t", "h", "e", " ",
      "f", "o", "l", "l", "o", "w", "i", "n", "g", " ", "f", "r", "o", "m", " ",
      "t", "h", "e", " ", "b", "a", "s", "e", " ", "r", "e", "p", "o", " ", "d", "i", "r">>

PYTHON == <<"p", "y", "t", "h", "o", "n">>

\* MATCH_PYTHON_COMMAND_RE.match(word): the pattern ([A-Z_]+=.*)|python at the
\* start of the word.
MatchPythonCommand(word) ==
    \/ \E k \in 1..(Len(word) - 1) :
          /\ \A i \in 1..k : word[i] \in UpperOrUnderscore
          /\ word[k + 1] = "="
    \/ StartsWith(word, PYTHON)

\* while words and not MATCH_PYTHON_COMMAND_RE.match(words[0]): words.pop(0)
RECURSIVE DropToCommand(_)
DropToCommand(words) ==
    IF words # <<>> /\ ~MatchPythonCommand(words[1])
    THEN DropToCommand(Tail(words))
    ELSE words

GetCommand(ls) ==
    LET command_lines == {i \in 1..Len(ls) : Contains(ls[i], COMMAND)}
    IN  IF command_lines = {} THEN Return(<<>>)
        ELSE LET cmd_index == MinOf(command_lines)
             IN  IF cmd_index + 1 > Len(ls)
                 THEN Raise("IndexError", <<>>)
                 ELSE Return(Join(DropToCommand(SplitWords(ls[cmd_index + 1])), <<" ">>))


\* The lines the logs of the model are made of: the marker line, "cd repo &&
\* FOO=1 python test_x.py -k bar", "sh python3.sh  A=1 python t.py" and "echo
\* ok".
LogLines ==
    {<<"#", " ">> \o COMMAND \o <<":">>,
     <<"c", "d", " ", "r", "e", "p", "o", " ", "&", "&", " ", "F", "O", "O", "=", "1", " ">>
        \o PYTHON \o <<" ", "t", "e", "s", "t", "_", "x", ".", "p", "y", " ", "-", "k", " ",
                        "b", "a", "r">>,
     <<"s", "h", " ">> \o PYTHON \o <<"3", ".", "s", "h", " ", " ", "A", "=", "1", " ">>
        \o PYTHON \o <<" ", "t", ".", "p", "y">>,
     <<"e", "c", "h", "o", " ", "o", "k">>}

MaxLogLines == 3

InitCommand ==
    /\ lines \in SeqsOf(LogLines, 0, MaxLogLines)
    /\ command = NotRun
    /\ RefIdle /\ ErrIdle /\ PollIdle /\ RunIdle

GetCommandStep ==
    /\ command = NotRun
    /\ command' = GetCommand(lines)
    /\ UNCHANGED <<lines, refVars, errVars, pollVars, runVars>>

NextCommand == GetCommandStep

SpecCommand == InitCommand /\ [][NextCommand]_vars

\* The rule as C9 states it: a stop token is an assignment NAME=value or the token
\* python itself.
ClaimedStopToken(word) ==
    \/ \E k \in 1..(Len(word) - 1) :
          /\ \A i \in 1..k : word[i] \in UpperOrUnderscore
          /\ word[k + 1] = "="
    \/ word = PYTHON

RECURSIVE ClaimedDrop(_)
ClaimedDrop(words) ==
    IF words # <<>> /\ ~ClaimedStopToken(words[1]) THEN ClaimedDrop(Tail(words)) ELSE words

\* C9 as claimed: a log without the marker gives the empty command; otherwise the
\* command is the line after the first marker line from its first assignment or
\* python token on, joined by single blanks, and no log raises an error (a marker
\* on the last line has no line after it, hence no command).
C9_CommandRule ==
    command # NotRun =>
        LET marked == {i \in 1..Len(lines) : Contains(lines[i], COMMAND)}
        IN  /\ command.exc = "none"
            /\ marked = {} => command.val = <<>>
            /\ (marked # {} /\ MinOf(marked) < Len(lines)) =>
                  command.val = Join(ClaimedDrop(SplitWords(lines[MinOf(marked) + 1])), <<" ">>)

(***************************************************************************)
(* run_error_command                                                       *)
(***************************************************************************)
PYTHON_SP == PYTHON \o <<" ">>

\* The characters of the model in the order of their code points.
CodePoints ==
    <<" ", "&", "-", ".", "0", "1", "2", "3", "4", "5", "6", "7", "8", "9", "=",
      "A", "B", "C", "D", "E", "F", "G", "H", "I", "J", "K", "L", "M", "N", "O",
      "P", "Q", "R", "S", "T", "U", "V", "W", "X", "Y", "Z", "_",
      "a", "b", "c", "d", "e", "f", "g", "h", "i", "j", "k", "l", "m", "n", "o",
      "p", "q", "r", "s", "t", "u", "v", "w", "x", "y", "z">>

Ord(c) == CHOOSE i \in 1..Len(CodePoints) : CodePoints[i] = c

\* a < b on str
RECURSIVE StrLess(_, _)
StrLess(a, b) ==
    IF b = <<>> THEN FALSE
    ELSE IF a = <<>> THEN TRUE
    ELSE IF Head(a) = Head(b) THEN StrLess(Tail(a), Tail(b))
    ELSE Ord(Head(a)) < Ord(Head(b))

\* a < b on the tuples (cmd, job_id)
\* sorted(pairs): a stable sort
RECURSIVE Insert(_, _)
Insert(sorted, x) ==
    IF sorted = <<>> THEN <<x>>
    ELSE IF \/ StrLess(x[1], Head(sorted)[1])
            \/ (x[1] = Head(sorted)[1] /\ x[2] < Head(sorted)[2])
         THEN <<x>> \o sorted
    ELSE <<Head(sorted)>> \o Insert(Tail(sorted), x)

RECURSIVE Sorted(_)
Sorted(pairs) ==
    IF pairs = <<>> THEN <<>>
    ELSE Insert(Sorted(SubSeq(pairs, 1, Len(pairs) - 1)), pairs[Len(pairs)])

\* d.get(key): the position of key in d, 0 when d does not hold it
DictIndex(dict, key) ==
    LET at == {i \in 1..Len(dict) : dict[i].key = key}
    IN  IF at = {} THEN 0 ELSE MinOf(at)

\* The mutant of SkipsCandidate that compares the lengths the other way round.
SkipsCandidateFlipped(c, cmd) == Len(c) <= Len(cmd)

\* if len(c) >= len(cmd): continue
SkipsCandidate(c, cmd) == Len(c) >= Len(cmd)

\* One pass of the loop body over the pair (c, job_id).
DedupPut(dict, c, job_id) ==
    LET parts == Partition(c, PYTHON_SP)
        before == parts[1]
        after == parts[3]
        i == DictIndex(dict, after)
        entry == [key |-> after, cmd |-> c, id |-> job_id]
    IN  IF before # <<>> /\ i # 0 /\ SkipsCandidate(c, dict[i].cmd)
        THEN dict
        ELSE IF i # 0 THEN [dict EXCEPT ![i] = entry] ELSE Append(dict, entry)

\* d.values()
DictValues(dict) == [i \in 1..Len(dict) |-> <<dict[i].cmd, dict[i].id>>]

\* The print loop: a line per pair, but none for a command equal to the one
\* printed last.
RECURSIVE PrintLoop(_, _)
PrintLoop(pairs, last_cmd) ==
    IF pairs = <<>> THEN <<>>
    ELSE IF Head(pairs)[1] # last_cmd
         THEN <<Head(pairs)>> \o PrintLoop(Tail(pairs), Head(pairs)[1])
         ELSE PrintLoop(Tail(pairs), last_cmd)

\* The commands of the model, as _get_command returns them.
TEST_A == <<"t", "e", "s", "t", "_", "a", ".", "p", "y">>
CmdPyA == PYTHON_SP \o TEST_A
CmdFooPyA == <<"F", "O", "O", "=", "1", " ">> \o PYTHON_SP \o TEST_A

Commands ==
    {CmdPyA, CmdFooPyA,
     <<"B", "A", "R", "=", "2", " ">> \o PYTHON_SP \o TEST_A,
     <<"A", "=", "1", " ">> \o PYTHON_SP \o TEST_A,
     PYTHON_SP \o <<"t", "e", "s", "t", "_", "b", ".", "p", "y">>,
     <<"X", "=", "1", " ", "p", "y", "t", "e", "s", "t">>}

MaxCommands == 3

\* The job of the i-th pair is job i.
WithJobIds(cs) == [i \in 1..Len(cs) |-> <<cs[i], i>>]

InitErrors ==
    /\ \E cs \in SeqsOf(Commands, 0, MaxCommands) : commands = WithJobIds(cs)
    /\ all_env_combos \in BOOLEAN
    /\ sort \in BOOLEAN
    /\ d = <<>> /\ pos = 0 /\ printed = <<>>
    /\ epc = "loop"
    /\ RefIdle /\ CmdIdle /\ PollIdle /\ RunIdle

\* for c, job_id in commands: one pair
DedupStep ==
    /\ epc = "loop"
    /\ ~all_env_combos
    /\ pos < Len(commands)
    /\ d' = DedupPut(d, commands[pos + 1][1], commands[pos + 1][2])
    /\ pos' = pos + 1
    /\ UNCHANGED <<commands, all_env_combos, sort, printed, epc>>
    /\ UNCHANGED <<refVars, cmdVars, pollVars, runVars>>

\* commands = d.values(), the sort and the print loop
Render ==
    /\ epc = "loop"
    /\ all_env_combos \/ pos = Len(commands)
    /\ LET kept == IF all_env_combos THEN commands ELSE DictValues(d)
           ordered == IF sort THEN Sorted(kept) ELSE kept
       IN  printed' = PrintLoop(ordered, <<>>)
    /\ epc' = "done"
    /\ UNCHANGED <<commands, all_env_combos, sort, d, pos>>
    /\ UNCHANGED <<refVars, cmdVars, pollVars, runVars>>

NextErrors == DedupStep \/ Render

SpecErrors == InitErrors /\ [][NextErrors]_vars

\* The pairs the deduplication loop has taken so far.
Taken == SubSeq(commands, 1, pos)

GroupKey(c) == Partition(c, PYTHON_SP)[3]

\* Each group key of the pairs taken is held once, by one of the pairs taken.
OnePerGroup ==
    /\ \A i, j \in 1..Len(d) : d[i].key = d[j].key => i = j
    /\ {d[i].key : i \in 1..Len(d)} = {GroupKey(Taken[j][1]) : j \in 1..pos}
    /\ \A i \in 1..Len(d) :
          /\ GroupKey(d[i].cmd) = d[i].key
          /\ \E j \in 1..pos : Taken[j] = <<d[i].cmd, d[i].id>>

\* C2, as amended: the commands are grouped by what follows the first "python ";
\* exactly one command is retained per group, and the rule is shortest-wins: a
\* stored command is replaced only by a candidate that is strictly shorter or that
\* starts with "python ", so the retained command is a shortest one of its group.
\* Of "python test_a.py" and "FOO=1 python test_a.py", in either order, the
\* retained one is the shorter, "python test_a.py".
C2_ShortestWins ==
    (epc # "idle" /\ ~all_env_combos) =>
        /\ OnePerGroup
        /\ \A i \in 1..Len(d) : \A j \in 1..pos :
              GroupKey(Taken[j][1]) = d[i].key => Len(d[i].cmd) <= Len(Taken[j][1])
        /\ (pos = 2 /\ {commands[1][1], commands[2][1]} = {CmdPyA, CmdFooPyA}) =>
              (Len(d) = 1 /\ d[1].cmd = CmdPyA)

\* Both orders of the two commands of the example have been deduplicated.
C2_Witness ==
    /\ epc = "done" /\ ~all_env_combos
    /\ Len(commands) = 2
    /\ commands[1][1] = CmdFooPyA /\ commands[2][1] = CmdPyA
    /\ printed = <<<<CmdPyA, 2>>>>

\* C2 as claimed: one command per group, and longest-wins: the retained command
\* is a longest one of its group; of the two commands of the example the retained
\* one is "FOO=1 python test_a.py".
C2_LongestWins ==
    (epc # "idle" /\ ~all_env_combos) =>
        /\ OnePerGroup
        /\ \A i \in 1..Len(d) : \A j \in 1..pos :
              GroupKey(Taken[j][1]) = d[i].key => Len(d[i].cmd) >= Len(Taken[j][1])
        /\ (pos = 2 /\ {commands[1][1], commands[2][1]} = {CmdPyA, CmdFooPyA}) =>
              (Len(d) = 1 /\ d[1].cmd = CmdFooPyA)

(***************************************************************************)
(* _get_failures                                                           *)
(***************************************************************************)
\* The names the module binds before _get_failures runs: its imports, and the
\* two optional imports bs4 and requests.
ModuleImports ==
    {"argparse", "dc", "json", "os", "re", "stat", "subprocess", "sys", "webbrowser",
     "Namespace", "nullcontext", "suppress", "cache", "cached_property", "attrgetter",
     "Path", "CalledProcessError", "run", "Any", "Optional", "Sequence",
     "bs4", "requests"}

FAILURE == "failure"

\* JSON's null, which json() turns into None.
None == "None"

\* not j["conclusion"]
NotConcluded(j) == j.conclusion \in {"", None}

\* sum(not j["conclusion"] for j in jobs)
NotFinished(js) == Cardinality({i \in 1..Len(js) : NotConcluded(js[i])})

\* The mutant of KeepsPolling that forgets the wait budget.
KeepsPollingAnyBudget(secs, not_finished) == not_finished # 0

\* seconds and not_finished: the loop goes on to sleep
KeepsPolling(secs, not_finished) == secs # 0 /\ not_finished # 0

\* [i for i in jobs if i[CONCLUSION] == FAILURE]
FailedJobs(js) == SelectSeq(js, LAMBDA j : j.conclusion = FAILURE)


MaxJobs == 3
MaxSeconds == 2
MaxFetches == 3

InitPoll ==
    /\ seconds \in 0..MaxSeconds
    /\ jobs = <<>> /\ fetches = 0 /\ sleeps = 0 /\ failed = <<>>
    /\ hpc = "fetch"
    /\ RefIdle /\ CmdIdle /\ ErrIdle /\ RunIdle

\* json = _api_get(...).json(); jobs = json["jobs"]
FetchJobs ==
    /\ hpc = "fetch"
    /\ fetches < MaxFetches
    /\ fetches' = fetches + 1
    /\ \E cs \in SeqsOf({"", None, FAILURE, "success"}, 0, MaxJobs) :
          jobs' = [i \in 1..Len(cs) |-> [id |-> i, conclusion |-> cs[i]]]
    /\ hpc' = "fetched"
    /\ UNCHANGED <<seconds, sleeps, failed>>
    /\ UNCHANGED <<refVars, cmdVars, errVars, runVars>>

\* except KeyError: print(json); sys.exit(1)
FetchWithoutJobs ==
    /\ hpc = "fetch"
    /\ fetches < MaxFetches
    /\ fetches' = fetches + 1
    /\ hpc' = "SystemExit"
    /\ UNCHANGED <<seconds, jobs, sleeps, failed>>
    /\ UNCHANGED <<refVars, cmdVars, errVars, runVars>>

\* if not (seconds and not_finished): break, and what follows the loop
CheckFinished ==
    /\ hpc = "fetched"
    /\ IF KeepsPolling(seconds, NotFinished(jobs))
       THEN hpc' = "sleep" /\ UNCHANGED failed
       ELSE hpc' = "returned" /\ failed' = FailedJobs(jobs)
    /\ UNCHANGED <<seconds, jobs, fetches, sleeps>>
    /\ UNCHANGED <<refVars, cmdVars, errVars, runVars>>

\* time.sleep(seconds): the module does not bind the name time
Sleep ==
    /\ hpc = "sleep"
    /\ IF "time" \in ModuleImports
       THEN hpc' = "fetch" /\ sleeps' = sleeps + 1
       ELSE hpc' = "NameError" /\ UNCHANGED sleeps
    /\ UNCHANGED <<seconds, jobs, fetches, failed>>
    /\ UNCHANGED <<refVars, cmdVars, errVars, runVars>>

NextPoll == FetchJobs \/ FetchWithoutJobs \/ CheckFinished \/ Sleep

SpecPoll == InitPoll /\ [][NextPoll]_vars

\* The failed jobs are the jobs of js that concluded in failure, each once.
AreTheFailuresOf(fs, js) ==
    /\ {fs[i] : i \in 1..Len(fs)} = {js[i] : i \in {k \in 1..Len(js) : js[k].conclusion = "failure"}}
    /\ \A i, k \in 1..Len(fs) : fs[i] = fs[k] => i = k

\* C7: with a wait budget of 0 the job list is fetched once, nothing sleeps, and
\* what is returned is the jobs of that fetch whose conclusion is "failure",
\* whatever jobs are pending.
C7_ZeroBudget ==
    (hpc # "idle" /\ seconds = 0) =>
        /\ fetches <= 1 /\ sleeps = 0
        /\ hpc \notin {"sleep", "NameError"}
        /\ hpc = "returned" => (fetches = 1 /\ AreTheFailuresOf(failed, jobs))

\* A run with a pending, a failed and a successful job was harvested at budget 0.
C7_Witness ==
    /\ hpc = "returned" /\ seconds = 0
    /\ \E i, k, m \in 1..Len(jobs) :
          /\ NotConcluded(jobs[i])
          /\ jobs[k].conclusion = "failure"
          /\ jobs[m].conclusion = "success"
    /\ Len(failed) = 1

\* C8 as claimed: with a wait budget, polling ends by going on with the data of
\* the last fetch: once the job list was fetched, the harvester stops only by
\* returning the failed jobs of that list.
C8_PollingProceeds ==
    (seconds # 0 /\ fetches > 0 /\ hpc \notin {"fetch", "fetched", "sleep", "SystemExit"}) =>
        (hpc = "returned" /\ AreTheFailuresOf(failed, jobs))

(***************************************************************************)
(* PullRequest.  An entity is its __dict__: the function from the names of *)
(* the attributes that are set to their values.  A cached property gives   *)
(* the entity as it leaves it (the value stored) and what it returned or   *)
(* raised.                                                                 *)
(***************************************************************************)
FIELDS == <<"is_open", "pull_message", "pull_number", "ref">>

\* PullRequest(ref)
PullRequest(r) == "ref" :> r

Has(pr, f) == f \in DOMAIN pr

SetAttr(pr, f, v) == (f :> v) @@ pr

Eval(pr, out) == [pr |-> pr, out |-> out]

\* cached_property: the value got is stored in __dict__ under the name f; an
\* exception leaves the entity as it is.
Memo(pr, f, got) ==
    IF got.exc # "none" THEN Eval(pr, got) ELSE Eval(SetAttr(pr, f, got.val), got)

\* A cached property f computed from another one, whose evaluation is e: the
\* exception of e is the outcome, else the value got is stored under f.
Then(e, f, got) == IF e.out.exc # "none" THEN e ELSE Memo(e.pr, f, got)

\* PullRequest._user_index
GetUserIndexOf(pr) ==
    IF Has(pr, "_user_index") THEN Eval(pr, Return(pr._user_index))
    ELSE Memo(pr, "_user_index", UserIndex(pr.ref))

\* PullRequest.user
GetUser(pr) ==
    IF Has(pr, "user") THEN Eval(pr, Return(pr.user))
    ELSE Then(GetUserIndexOf(pr), "user", Return(GetUserIndexOf(pr).out.val[1]))

\* PullRequest.pull_number
GetPullNumber(pr) ==
    IF Has(pr, "pull_number") THEN Eval(pr, Return(pr.pull_number))
    ELSE Memo(pr, "pull_number",
              IF GetGhstackMessage(pr.ref).exc # "none" THEN GetGhstackMessage(pr.ref)
              ELSE Return(GetGhstackMessage(pr.ref).val[1]))

\* PullRequest.pull_message
GetPullMessage(pr) ==
    IF Has(pr, "pull_message") THEN Eval(pr, Return(pr.pull_message))
    ELSE Memo(pr, "pull_message",
              IF GetGhstackMessage(pr.ref).exc # "none" THEN GetGhstackMessage(pr.ref)
              ELSE Return(GetGhstackMessage(pr.ref).val[2]))

\* PullRequest.subject
GetSubject(pr) ==
    IF Has(pr, "subject") THEN Eval(pr, Return(pr.subject))
    ELSE Then(GetPullMessage(pr), "subject",
              IF GetPullMessage(pr).out.val = <<>> THEN Raise("IndexError", <<>>)
              ELSE Return(GetPullMessage(pr).out.val[1]))

\* PullRequest.url
GetUrl(pr) ==
    IF Has(pr, "url") THEN Eval(pr, Return(pr.url))
    ELSE Then(GetPullNumber(pr), "url", Return(PULL_PREFIX \o GetPullNumber(pr).out.val))

\* The mutant of AsDict that keeps a field when its value is true, not when it is
\* set.
AsDictOfTrueValues(pr) ==
    LET kept == SelectSeq(FIELDS, LAMBDA f :
                    Has(pr, f) /\ (IF f = "is_open" THEN pr[f] ELSE pr[f] # <<>>))
    IN  [i \in 1..Len(kept) |-> <<kept[i], pr[kept[i]]>>]

\* PullRequest.asdict: the items of the dict, in the order of FIELDS.  No attribute
\* of the model is None.
AsDict(pr) ==
    LET kept == SelectSeq(FIELDS, LAMBDA f : Has(pr, f))
    IN  [i \in 1..Len(kept) |-> <<kept[i], pr[kept[i]]>>]

\* PullRequest.fromdict(**i), i being the items of one record of the file
FromDict(items) ==
    [f \in {items[j][1] : j \in 1..Len(items)} |->
        items[CHOOSE j \in 1..Len(items) : items[j][1] = f][2]]

(***************************************************************************)
(* PullRequests.  self.pulls is a dict from user to list: the sequence of  *)
(* its items [user, prs] in insertion order.  The JSON text of the file is *)
(* the sequence of the members <<user, array of objects>>, an object being *)
(* the sequence of its members <<name, value>>.                            *)
(***************************************************************************)
\* The last of a set of positions.
LastOf(S) == CHOOSE j \in S : \A m \in S : m <= j

\* The position of the key in the dict, 0 when the dict does not hold it.
KeyIndex(dict, key) ==
    LET at == {i \in 1..Len(dict) : dict[i].user = key}
    IN  IF at = {} THEN 0 ELSE MinOf(at)

\* result.setdefault(key, []).append(pr)
SetDefaultAppend(dict, key, pr) ==
    LET i == KeyIndex(dict, key)
    IN  IF i = 0 THEN Append(dict, [user |-> key, prs |-> <<pr>>])
        ELSE [dict EXCEPT ![i].prs = Append(@, pr)]

\* json.dumps({k: [i.asdict() for i in v] for k, v in pulls.items()})
JsonDump(dict) ==
    [k \in 1..Len(dict) |->
        <<dict[k].user, [j \in 1..Len(dict[k].prs) |-> AsDict(dict[k].prs[j])]>>]

\* {k: [PullRequest.fromdict(**i) for i in v] for k, v in json.loads(text).items()}
JsonLoad(text) ==
    [k \in 1..Len(text) |->
        [user |-> text[k][1],
         prs |-> [j \in 1..Len(text[k][2]) |-> FromDict(text[k][2][j])]]]

\* with suppress(PullError): if ... pr.user == self.user:
\*     result.setdefault(pr.user, []).append(pr)
\* got being the evaluation of pr.user; args.all is set by the list command alone.
Keep(dict, usr, got) ==
    IF got.out.exc = "none" /\ (list_args.all \/ got.out.val = usr)
    THEN SetDefaultAppend(dict, got.out.val, got.pr)
    ELSE dict

\* The loop of the property pulls over the lines of git branch -r
RECURSIVE BuildPulls(_, _, _)
BuildPulls(brs, usr, dict) ==
    IF brs = <<>> THEN dict
    ELSE BuildPulls(Tail(brs), usr, Keep(dict, usr, GetUser(PullRequest(Strip(Head(brs))))))

\* self.pulls, read in the state st = [has_pulls, pulls, built]
ReadPulls(st) ==
    IF st.has_pulls THEN st
    ELSE [has_pulls |-> TRUE, pulls |-> BuildPulls(branches, user, <<>>), built |-> TRUE]

Answer(st, out) == [st |-> st, out |-> out]

\* The places <<item, entity>> of the entities of the dict, in its order.
RECURSIVE Places(_, _)
Places(dict, k) ==
    IF k > Len(dict) THEN <<>>
    ELSE [j \in 1..Len(dict[k].prs) |-> <<k, j>>] \o Places(dict, k + 1)

NO_SUCH_PULL ==
    <<"N", "o", " ", "s", "u", "c", "h", " ", "p", "u", "l", "l", " ",
      "r", "e", "q", "u", "e", "s", "t", " ", "(", "r", "e", "r", "u", "n", " ",
      "w", "i", "t", "h", " ", "-", "f", "w", " ", "i", "f", " ", "y", "o", "u", " ",
      "k", "n", "o", "w", " ", "i", "t", " ", "e", "x", "i", "s", "t", "s", ")">>
CANT_FIND ==
    <<"C", "a", "n", "'", "t", " ", "f", "i", "n", "d", " ", "a", "n", "y", " ",
      "c", "o", "m", "m", "i", "t", "s", " ", "m", "a", "t", "c", "h", "i", "n", "g", " ", "'">>

\* p.pull_number of _get_pull and p.subject of search
Attribute(pr, f) == IF f = "pull_number" THEN GetPullNumber(pr) ELSE GetSubject(pr)

\* A comprehension that reads the attribute f of the entities at the places, in
\* turn, up to the first that raises: the entities keep what they have computed.
RECURSIVE ReadAll(_, _, _, _)
ReadNext(dict, places, n, f, got) ==
    IF got.out.exc # "none" THEN [pulls |-> dict, out |-> got.out]
    ELSE ReadAll([dict EXCEPT ![places[n][1]].prs[places[n][2]] = got.pr], places, n + 1, f)

ReadAll(dict, places, n, f) ==
    IF n > Len(places) THEN [pulls |-> dict, out |-> Return(<<>>)]
    ELSE ReadNext(dict, places, n, f, Attribute(dict[places[n][1]].prs[places[n][2]], f))

\* pull_requests_by_number[pull_number], all being the reading of the pull numbers:
\* the place of the last entity with the number
Lookup(st1, places, all, pull_number) ==
    LET hits == {n \in 1..Len(places) :
                    all.pulls[places[n][1]].prs[places[n][2]].pull_number = pull_number}
    IN  IF all.out.exc # "none" THEN Answer([st1 EXCEPT !.pulls = all.pulls], all.out)
        ELSE IF hits = {}
             THEN Answer([st1 EXCEPT !.pulls = all.pulls], Raise("PullError", NO_SUCH_PULL))
        ELSE Answer([st1 EXCEPT !.pulls = all.pulls], Return(places[LastOf(hits)]))

\* PullRequests._get_pull once self.pulls is read
PullByNumber(st1, pull_number) ==
    Lookup(st1, Places(st1.pulls, 1),
           ReadAll(st1.pulls, Places(st1.pulls, 1), 1, "pull_number"), pull_number)

\* PullRequests._get_pull: the place of the entity found
GetPull(st, pull_number) == PullByNumber(ReadPulls(st), pull_number)

\* pl[-1] of search, all being the reading of the subjects of the list at k
LastMatch(st1, k, all, s, q) ==
    LET pl == {j \in 1..Len(all.pulls[k].prs) : Contains(all.pulls[k].prs[j].subject, s)}
    IN  IF all.out.exc # "none" THEN Answer([st1 EXCEPT !.pulls = all.pulls], all.out)
        ELSE IF pl = {}
             THEN Answer([st1 EXCEPT !.pulls = all.pulls],
                         Raise("PullError", CANT_FIND \o q \o QUOTE))
        ELSE Answer([st1 EXCEPT !.pulls = all.pulls], Return(<<k, LastOf(pl)>>))

\* search(s) once self.pulls is read: self.pulls[self.user] is a KeyError when the
\* user has no list
SearchIn(st1, k, s, q) ==
    IF k = 0 THEN Answer(st1, Raise("KeyError", <<>>))
    ELSE LastMatch(st1, k,
                   ReadAll(st1.pulls, [j \in 1..Len(st1.pulls[k].prs) |-> <<k, j>>], 1, "subject"),
                   s, q)

\* search(s) of PullRequests._matching_pull, q being self.pull
Search(st, s, q) == SearchIn(ReadPulls(st), KeyIndex(ReadPulls(st).pulls, user), s, q)

\* The mutant of SuppressedAtExtraction that suppresses PullError as well.
SuppressedWithPullError == {"CalledProcessError", "PullError"}

\* with suppress(CalledProcessError):
SuppressedAtExtraction == {"CalledProcessError"}

\* PullRequests.pull
SelfPull(arg) == IF arg # <<>> THEN arg ELSE HEAD

\* with suppress(PullError): return self._get_pull(self.pull)
\* return search(self.pull)
AfterNumeric(numeric, q) ==
    IF numeric.out.exc # "PullError" THEN numeric ELSE Search(numeric.st, q, q)

\* What follows `with suppress(CalledProcessError): return ...`, first being the
\* evaluation of that return
AfterExtraction(first, q) ==
    IF first.out.exc \notin SuppressedAtExtraction THEN first
    ELSE IF IsNumeric(q) THEN AfterNumeric(GetPull(first.st, q), q)
    ELSE Search(first.st, q, q)

\* PullRequests._matching_pull, q being self.pull
MatchingPull(st, q) ==
    IF StartsWith(q, <<"#">>) THEN GetPull(st, SubSeq(q, 2, Len(q)))
    ELSE IF StartsWith(q, <<":", "/">>) THEN Search(st, SubSeq(q, 3, Len(q)), q)
    ELSE AfterExtraction(IF GetGhstackMessage(q).exc # "none"
                         THEN Answer(st, GetGhstackMessage(q))
                         ELSE GetPull(st, GetGhstackMessage(q).val[1]),
                         q)

(***************************************************************************)
(* PullRequests.__call__ with a command that shows the url of a pull       *)
(* request: the steps of one run, and the next run of the program.         *)
(***************************************************************************)

\* The message __call__ hands to sys.exit for the PullError with message m; arg is
\* args.pull, the url commands having no args.search.
ExitMessage(m, arg) ==
    LET msg == <<"E", "R", "R", "O", "R", ":", " ">> \o m
    IN  IF arg # <<>> /\ ~Contains(msg, arg) THEN msg \o <<" ", "f", "o", "r", " ">> \o arg ELSE msg

\* The mutant of AfterFetch that loads the file whatever the flags.
AfterFetchAlwaysLoads(i, w) == "load"

\* Where a run starts, and where it goes on after the fetch.
AfterFetch(i, w) == IF ~(i \/ w) THEN "load" ELSE "command"
StartPc(f, i, w) == IF f THEN "fetch" ELSE AfterFetch(i, w)

\* An entity as load() leaves it for a record that holds the pull number and the
\* message of the commit of r.
Materialized(r) ==
    SetAttr(SetAttr(PullRequest(r), "pull_number", GetGhstackMessage(r).val[1]),
            "pull_message", GetGhstackMessage(r).val[2])

\* The entities the cache files of the model are made of.
CachedEntities ==
    {PullRequest(R1), SetAttr(Materialized(R2), "is_open", FALSE), Materialized(R3),
     PullRequest(R4), PullRequest(R5), SetAttr(Materialized(B1), "is_open", TRUE)}

RECURSIVE CacheOf(_, _)
CacheOf(prs, dict) ==
    IF prs = <<>> THEN dict
    ELSE CacheOf(Tail(prs), SetDefaultAppend(dict, UserIndex(Head(prs).ref).val[1], Head(prs)))


\* The JSON object of the file for an entity: a member for each field it holds.
RecordOf(pr) ==
    LET held == SelectSeq(FIELDS, LAMBDA f : f \in DOMAIN pr)
    IN  [i \in 1..Len(held) |-> <<held[i], pr[held[i]]>>]

\* The texts of the cache files that hold at most n of the entities.
CacheTexts(entities, n) ==
    {[k \in 1..Len(c) |-> <<c[k].user, [j \in 1..Len(c[k].prs) |-> RecordOf(c[k].prs[j])]>>] :
        c \in {CacheOf(prs, <<>>) : prs \in SeqsOf(entities, 0, n)}}

\* What git branch -r prints: two spaces before each name.
BranchLists ==
    {<<(<<" ", " ">> \o UPSTREAM \o <<"/">> \o MAIN), (<<" ", " ">> \o R1),
       (<<" ", " ">> \o Join(<<UPSTREAM, GH, REC, <<"1">>, HEAD>>, <<"/">>)),
       (<<" ", " ">> \o R2), (<<" ", " ">> \o B1)>>,
     <<(<<" ", " ">> \o R3), (<<" ", " ">> \o R4)>>}

RunQueries == {<<>>, <<"#">> \o P123456, <<":", "/">> \o FIX_A}

MaxPulls == 3
MaxFilePulls == 2


FreshProcess ==
    /\ has_pulls = FALSE /\ pulls = <<>> /\ built = FALSE
    /\ matched = NotRun /\ result = NotRun /\ exit_msg = <<>> /\ trace = <<>>
    /\ list_args = [search |-> <<>>, all |-> FALSE, closed |-> FALSE, sort |-> FALSE,
                    reverse |-> FALSE]

\* A run of the url command over a cache file, without flags.
InitResolver ==
    /\ \E text \in CacheTexts(CachedEntities, MaxPulls) : file = [exists |-> TRUE, text |-> text]
    /\ branches = <<>>
    /\ fetch = FALSE /\ ignore_cache = FALSE /\ rewrite_cache = FALSE
    /\ pull \in {<<>>, <<"#">> \o P123456, <<"#">> \o P123459, <<":", "/">> \o FIX_A,
                 MAIN, DUP, FIX_B, P123458}
    /\ user = REC
    /\ FreshProcess
    /\ written = [by_save |-> FALSE, pulls |-> <<>>]
    /\ pc = "load"
    /\ RefIdle /\ CmdIdle /\ ErrIdle /\ PollIdle

\* A run of the url command with any flags, over any cache file or none.
InitRun ==
    /\ file \in {[exists |-> FALSE, text |-> <<>>]} \cup
                {[exists |-> TRUE, text |-> t] : t \in CacheTexts({PullRequest(R1), SetAttr(Materialized(R2), "is_open", FALSE),
                                   PullRequest(R4), SetAttr(Materialized(B1), "is_open", TRUE)},
                                  MaxFilePulls)}
    /\ branches \in BranchLists
    /\ fetch \in BOOLEAN /\ ignore_cache \in BOOLEAN /\ rewrite_cache \in BOOLEAN
    /\ pull \in RunQueries
    /\ user = REC
    /\ FreshProcess
    /\ written = [by_save |-> FALSE, pulls |-> <<>>]
    /\ pc = StartPc(fetch, ignore_cache, rewrite_cache)
    /\ RefIdle /\ CmdIdle /\ ErrIdle /\ PollIdle

\* _run("git fetch upstream"): the remote branches are what upstream has now
Fetch ==
    /\ pc = "fetch"
    /\ branches' \in BranchLists
    /\ trace' = Append(trace, "fetch")
    /\ pc' = AfterFetch(ignore_cache, rewrite_cache)
    /\ UNCHANGED <<file, argVars, has_pulls, pulls, built, matched, result, exit_msg, written>>
    /\ UNCHANGED <<refVars, cmdVars, errVars, pollVars>>

\* _run("git fetch upstream") raises CalledProcessError
FetchFails ==
    /\ pc = "fetch"
    /\ trace' = Append(trace, "fetch")
    /\ pc' = "crash"
    /\ UNCHANGED <<file, branches, argVars, has_pulls, pulls, built, matched, result,
                   exit_msg, written>>
    /\ UNCHANGED <<refVars, cmdVars, errVars, pollVars>>

\* PullRequests.load
Load ==
    /\ pc = "load"
    /\ IF file.exists /\ file.text # <<>>
       THEN has_pulls' = TRUE /\ pulls' = JsonLoad(file.text)
       ELSE UNCHANGED <<has_pulls, pulls>>
    /\ trace' = Append(trace, "load")
    /\ pc' = "command"
    /\ UNCHANGED <<file, branches, argVars, built, matched, result, exit_msg, written>>
    /\ UNCHANGED <<refVars, cmdVars, errVars, pollVars>>

\* PullRequests._url_command for the command url, and the handler of __call__
\* around it
UrlCommand ==
    /\ pc = "command"
    /\ \E found \in {MatchingPull([has_pulls |-> has_pulls, pulls |-> pulls, built |-> built],
                                  SelfPull(pull))} :
       \E value \in {IF found.out.exc # "none" THEN Eval(<<>>, found.out)
                     ELSE GetUrl(found.st.pulls[found.out.val[1]].prs[found.out.val[2]])} :
          /\ matched' = found.out
          /\ result' = value.out
          /\ has_pulls' = found.st.has_pulls
          /\ built' = found.st.built
          /\ pulls' = IF found.out.exc # "none" THEN found.st.pulls
                      ELSE [found.st.pulls EXCEPT
                               ![found.out.val[1]].prs[found.out.val[2]] = value.pr]
          /\ exit_msg' = IF value.out.exc = "PullError"
                         THEN ExitMessage(value.out.msg, pull) ELSE <<>>
          /\ pc' = IF value.out.exc = "none" THEN (IF ignore_cache THEN "done" ELSE "save")
                   ELSE IF value.out.exc = "PullError" THEN "exit" ELSE "crash"
    /\ trace' = Append(trace, "command")
    /\ UNCHANGED <<file, branches, argVars, written>>
    /\ UNCHANGED <<refVars, cmdVars, errVars, pollVars>>

\* PullRequests.save
Save ==
    /\ pc = "save"
    /\ IF has_pulls
       THEN /\ file' = [exists |-> TRUE, text |-> JsonDump(pulls)]
            /\ written' = [by_save |-> TRUE, pulls |-> pulls]
       ELSE UNCHANGED <<file, written>>
    /\ trace' = Append(trace, "save")
    /\ pc' = "done"
    /\ UNCHANGED <<branches, argVars, has_pulls, pulls, built, matched, result, exit_msg>>
    /\ UNCHANGED <<refVars, cmdVars, errVars, pollVars>>

\* The program is run again: a new process over the same file and repository.
NewRun ==
    /\ pc \in {"done", "exit", "crash"}
    /\ fetch' \in BOOLEAN /\ ignore_cache' \in BOOLEAN /\ rewrite_cache' \in BOOLEAN
    /\ pull' \in RunQueries
    /\ has_pulls' = FALSE /\ pulls' = <<>> /\ built' = FALSE
    /\ matched' = NotRun /\ result' = NotRun /\ exit_msg' = <<>> /\ trace' = <<>>
    /\ pc' = StartPc(fetch', ignore_cache', rewrite_cache')
    /\ UNCHANGED <<file, branches, user, list_args, written>>
    /\ UNCHANGED <<refVars, cmdVars, errVars, pollVars>>

NextResolver == Load \/ UrlCommand

SpecResolver == InitResolver /\ [][NextResolver]_vars

NextRun == Fetch \/ FetchFails \/ Load \/ UrlCommand \/ Save \/ NewRun

SpecRun == InitRun /\ [][NextRun]_vars

(***************************************************************************)
(* What the resolver is to answer, read off the collection and the         *)
(* repository without the resolver.                                        *)
(***************************************************************************)
\* The entities of the collection with their places, in its order.
AllPlaces == UNION {{<<k, j>> : j \in 1..Len(pulls[k].prs)} : k \in 1..Len(pulls)}

EntityAt(at) == pulls[at[1]].prs[at[2]]

\* The pull number and the subject an entity has: the one it holds, or the one of
\* the commit of its reference.
NumberOf(pr) == GetPullNumber(pr).out
SubjectOf(pr) == GetSubject(pr).out

\* Every entity of the collection has a pull number and a subject, and the current
\* user has a list.
Derivable ==
    /\ \A at \in AllPlaces :
          NumberOf(EntityAt(at)).exc = "none" /\ SubjectOf(EntityAt(at)).exc = "none"
    /\ \E k \in 1..Len(pulls) : pulls[k].user = user

\* The places of the current user's list whose subject contains s.
SubjectHits(s) ==
    {at \in AllPlaces : /\ pulls[at[1]].user = user
                        /\ SubjectOf(EntityAt(at)).exc = "none"
                        /\ Contains(SubjectOf(EntityAt(at)).val, s)}

\* The places of the collection whose pull number is n.
NumberHits(n) ==
    {at \in AllPlaces : NumberOf(EntityAt(at)) = Return(n)}

\* The resolver answered as the search for s does: the last hit of the current
\* user's list, or the error that names q.
AnsweredAsSearch(s, q) ==
    IF SubjectHits(s) = {}
    THEN matched.exc = "PullError" /\ Contains(matched.msg, q)
    ELSE /\ matched.exc = "none"
         /\ matched.val \in SubjectHits(s)
         /\ \A at \in SubjectHits(s) : at[2] <= matched.val[2]

\* The resolver answered as the lookup of the number n does.
AnsweredAsLookup(n) ==
    IF NumberHits(n) = {}
    THEN matched = Raise("PullError", NO_SUCH_PULL)
    ELSE matched.exc = "none" /\ matched.val \in NumberHits(n)

Resolved == matched # NotRun

PlainQuery == ~StartsWith(SelfPull(pull), <<"#">>) /\ ~StartsWith(SelfPull(pull), <<":", "/">>)

Extraction == GetGhstackMessage(SelfPull(pull))

C3_SearchRule ==
    (/\ Resolved /\ StartsWith(pull, <<":", "/">>)
     /\ \A at \in AllPlaces :
           pulls[at[1]].user = user => SubjectOf(EntityAt(at)).exc = "none")
    => AnsweredAsSearch(SubSeq(pull, 3, Len(pull)), SubSeq(pull, 3, Len(pull)))

\* C4: on the query '#n' the outcome is an entity of any user whose pull number is
\* n, or 'No such pull request' when no entity has that number, whatever the other
\* entities of the collection are.
C4_LookupRule ==
    (Resolved /\ StartsWith(pull, <<"#">>)) => AnsweredAsLookup(SubSeq(pull, 2, Len(pull)))

(***************************************************************************)
(* The cache file over the runs.                                           *)
(***************************************************************************)
Finished == pc \in {"done", "exit", "crash"}

Occurs(step) == \E i \in 1..Len(trace) : trace[i] = step

Before(a, b) == \E i, j \in 1..Len(trace) : i < j /\ trace[i] = a /\ trace[j] = b

\* C5 (as amended): in a finished run, with ignore-cache the file is neither
\* loaded nor saved; with rewrite-cache it is not loaded and the collection the
\* command read is built from the remote branches; with neither flag it is loaded
\* before the command; and save is invoked exactly when ignore-cache is not set and
\* the command has completed without an error, as the last step, after the command,
\* overwriting the file with the collection.
C5_Lifecycle ==
    Finished =>
        /\ ignore_cache => (~Occurs("load") /\ ~Occurs("save"))
        /\ rewrite_cache => (~Occurs("load") /\ (has_pulls => built))
        /\ (~(ignore_cache \/ rewrite_cache) /\ Occurs("command")) => Before("load", "command")
        /\ Occurs("save") <=> (~ignore_cache /\ result.exc = "none")
        /\ Occurs("save") =>
              /\ trace[Len(trace)] = "save"
              /\ Before("command", "save")
              /\ file = [exists |-> TRUE, text |-> JsonDump(pulls)]

\* C5: a run in rewrite-cache mode has rebuilt the collection and has ended on the
\* error of the command, without a save.
C5_Witness ==
    /\ pc = "exit"
    /\ rewrite_cache /\ ~ignore_cache
    /\ built
    /\ Occurs("command") /\ ~Occurs("save")

\* C5 (as stated): a finished run whose command has run, in rewrite-cache mode or
\* with neither flag, has invoked save, whatever the outcome of the command.
C5_AlwaysSaved ==
    (Finished /\ Occurs("command") /\ ~ignore_cache) => Occurs("save")

\* The file that save has written has just been loaded.
Reloaded ==
    /\ pc = "command"
    /\ trace # <<>> /\ trace[Len(trace)] = "load"
    /\ written.by_save /\ written.pulls # <<>>

\* C6: the collection loaded from the file that save wrote has the users and the
\* lists of the saved one, in the same order, and every entity holds each
\* recognized field that was materialized in the saved entity, with the same
\* value, is_open = false included; its subject is the first line of the saved
\* pull message, read from the fields it holds.
C6_RoundTrip ==
    Reloaded =>
        /\ Len(pulls) = Len(written.pulls)
        /\ \A k \in 1..Len(written.pulls) :
              /\ pulls[k].user = written.pulls[k].user
              /\ Len(pulls[k].prs) = Len(written.pulls[k].prs)
              /\ \A j \in 1..Len(written.pulls[k].prs) :
                    LET saved == written.pulls[k].prs[j]
                        loaded == pulls[k].prs[j]
                    IN  /\ \A i \in 1..Len(FIELDS) :
                              Has(saved, FIELDS[i]) =>
                                  (Has(loaded, FIELDS[i]) /\ loaded[FIELDS[i]] = saved[FIELDS[i]])
                        /\ Has(saved, "pull_message") =>
                              /\ Has(loaded, "pull_message")
                              /\ SubjectOf(loaded) = Return(Head(saved.pull_message))

\* C6: a saved entity whose four recognized fields were materialized, is_open being
\* false, has been loaded again.
C6_Witness ==
    /\ Reloaded
    /\ \E k \in 1..Len(written.pulls) : \E j \in 1..Len(written.pulls[k].prs) :
          /\ \A i \in 1..Len(FIELDS) : Has(written.pulls[k].prs[j], FIELDS[i])
          /\ written.pulls[k].prs[j].is_open = FALSE
          /\ pulls[k].prs[j].is_open = FALSE

(***************************************************************************)
(* PullRequests.load on a file whose records hold keys that save does not  *)
(* write.                                                                  *)
(***************************************************************************)
STALE == <<"s", "t", "a", "l", "e">>

\* The records of the files: the members of each JSON object, in its order.
LoadRecords ==
    {<<<<"ref", R1>>>>,
     <<<<"ref", R1>>, <<"url", STALE>>>>,
     <<<<"pull_number", P123457>>, <<"ref", R2>>, <<"subject", STALE>>>>,
     <<<<"is_open", TRUE>>, <<"pull_number", P123458>>, <<"ref", R3>>>>,
     <<<<"note", STALE>>, <<"ref", R3>>>>}

MaxRecords == 2

\* A run of the url command over a file of the current user's records.
InitLoad ==
    /\ \E recs \in SeqsOf(LoadRecords, 1, MaxRecords) :
          file = [exists |-> TRUE, text |-> <<<<REC, recs>>>>]
    /\ branches = <<>>
    /\ fetch = FALSE /\ ignore_cache = FALSE /\ rewrite_cache = FALSE
    /\ pull \in {<<>>, <<"#">> \o P123456, <<"#">> \o P123457, <<":", "/">> \o STALE}
    /\ user = REC
    /\ FreshProcess
    /\ written = [by_save |-> FALSE, pulls |-> <<>>]
    /\ pc = "load"
    /\ RefIdle /\ CmdIdle /\ ErrIdle /\ PollIdle

SpecLoad == InitLoad /\ [][NextResolver]_vars

\* C11: after load every entity holds recognized fields only (ref, is_open,
\* pull_message, pull_number), whatever the keys of its record, and the url the
\* command then shows is derived from the pull number, not taken from the file.
C11_OnlyRecognized ==
    /\ (pc = "command" /\ has_pulls) =>
          \A at \in AllPlaces :
              DOMAIN EntityAt(at) \subseteq {FIELDS[i] : i \in 1..Len(FIELDS)}
    /\ (Resolved /\ result.exc = "none") =>
          \E n \in {P123456, P123457, P123458} : result.val = PULL_PREFIX \o n

(***************************************************************************)
(* PullRequests._list                                                      *)
(***************************************************************************)
\* search = " ".join(self.args.search), without a leading ":/"
ListSearch ==
    IF StartsWith(Join(list_args.search, <<" ">>), <<":", "/">>)
    THEN SubSeq(Join(list_args.search, <<" ">>), 3, Len(Join(list_args.search, <<" ">>)))
    ELSE Join(list_args.search, <<" ">>)

\* PullRequest.is_open: the stored value, or what the GitHub API answers for the
\* pull request, net being the answers of the API by ref
GetIsOpen(pr, net) ==
    IF Has(pr, "is_open") THEN Eval(pr, Return(pr.is_open))
    ELSE Memo(pr, "is_open", net[pr.ref])

\* search in p.subject and (self.args.closed or p.is_open), s being the evaluation
\* of p.subject
AfterSubject(s, net) ==
    IF s.out.exc # "none" THEN s
    ELSE IF ~Contains(s.out.val, ListSearch) THEN Eval(s.pr, Return(FALSE))
    ELSE IF list_args.closed THEN Eval(s.pr, Return(TRUE))
    ELSE GetIsOpen(s.pr, net)

\* What follows p.pull_number in the body of the loop, n being its evaluation
AfterNumber(n, net) ==
    IF n.out.exc # "none" THEN n ELSE AfterSubject(GetSubject(n.pr), net)

\* sorted(pulls, key=key, reverse=self.args.reverse), kept being the positions of
\* the entities of pulls in prs: a stable sort, also when reversed
SortKept(kept, prs) ==
    LET key == IF list_args.sort THEN "subject" ELSE "pull_number"
        pairs == [i \in 1..Len(kept) |->
                     <<prs[kept[i]][key], IF list_args.reverse THEN Len(kept) - i ELSE i>>]
    IN  [i \in 1..Len(kept) |->
            IF list_args.reverse
            THEN kept[Len(kept) - Sorted(pairs)[Len(kept) + 1 - i][2]]
            ELSE kept[Sorted(pairs)[i][2]]]

\* clean_and_sort: the loop over self.pulls[user] from the entity n on, then the
\* sort.  with suppress(PullError) skips the entity whose body raises PullError;
\* any other exception leaves the loop.
RECURSIVE CleanAndSort(_, _, _, _)
CleanNext(prs, n, kept, got, net) ==
    IF got.out.exc \notin {"none", "PullError"}
    THEN [prs |-> [prs EXCEPT ![n] = got.pr], out |-> got.out]
    ELSE CleanAndSort([prs EXCEPT ![n] = got.pr], n + 1,
                      IF got.out.exc = "none" /\ got.out.val THEN Append(kept, n) ELSE kept,
                      net)

CleanAndSort(prs, n, kept, net) ==
    IF n > Len(prs) THEN [prs |-> prs, out |-> Return(SortKept(kept, prs))]
    ELSE CleanNext(prs, n, kept, AfterNumber(GetPullNumber(prs[n]), net), net)

\* The loops of _list over the users from k to last: what is printed, a line
\* f"#{p.pull_number}: {p.subject}" for an entity, after f"{user}: " with
\* args.all, and the exception that ends the listing if any, with what was
\* printed before it.
RECURSIVE ListUsers(_, _, _, _, _)
ListUsersNext(dict, k, last, lines_out, got, net) ==
    IF got.out.exc # "none"
    THEN [pulls |-> [dict EXCEPT ![k].prs = got.prs],
          out |-> [got.out EXCEPT !.val = lines_out]]
    ELSE ListUsers([dict EXCEPT ![k].prs = got.prs], k + 1, last,
                   lines_out \o [i \in 1..Len(got.out.val) |->
                       (IF list_args.all THEN dict[k].user \o <<":", " ">> ELSE <<>>)
                           \o <<"#">> \o got.prs[got.out.val[i]].pull_number
                           \o <<":", " ">> \o got.prs[got.out.val[i]].subject],
                   net)

ListUsers(dict, k, last, lines_out, net) ==
    IF k > last THEN [pulls |-> dict, out |-> Return(lines_out)]
    ELSE ListUsersNext(dict, k, last, lines_out, CleanAndSort(dict[k].prs, 1, <<>>, net), net)

MaxListed == 2

\* A run of the list command over a cache file, without cache flags.
InitList ==
    /\ \E text \in CacheTexts(CachedEntities, MaxListed) : file = [exists |-> TRUE, text |-> text]
    /\ branches = <<>>
    /\ fetch = FALSE /\ ignore_cache = FALSE /\ rewrite_cache = FALSE
    /\ pull = <<>>
    /\ user = REC
    /\ list_args \in [search : {<<>>, <<<<":", "/", "f", "i", "x">>, <<"a">>>>},
                      all : BOOLEAN, closed : BOOLEAN, sort : BOOLEAN, reverse : BOOLEAN]
    /\ has_pulls = FALSE /\ pulls = <<>> /\ built = FALSE
    /\ matched = NotRun /\ result = NotRun /\ exit_msg = <<>> /\ trace = <<>>
    /\ written = [by_save |-> FALSE, pulls |-> <<>>]
    /\ pc = "load"
    /\ RefIdle /\ CmdIdle /\ ErrIdle /\ PollIdle

\* PullRequests._list, and the handler of __call__ around it: no PullError leaves
\* _list, and any other exception leaves __call__.
ListCommand ==
    /\ pc = "command"
    /\ \E net \in [{R1, R3} -> {Return(TRUE), Return(FALSE), Raise("CalledProcessError", <<>>)}] :
       \E st \in {ReadPulls([has_pulls |-> has_pulls, pulls |-> pulls, built |-> built])} :
       \E listed \in {IF list_args.all THEN ListUsers(st.pulls, 1, Len(st.pulls), <<>>, net)
                      ELSE IF KeyIndex(st.pulls, user) = 0
                           THEN [pulls |-> st.pulls, out |-> Raise("KeyError", <<>>)]
                      ELSE ListUsers(st.pulls, KeyIndex(st.pulls, user),
                                     KeyIndex(st.pulls, user), <<>>, net)} :
          /\ result' = listed.out
          /\ pulls' = listed.pulls
          /\ has_pulls' = st.has_pulls
          /\ built' = st.built
          /\ pc' = IF listed.out.exc = "none" THEN "save" ELSE "crash"
    /\ trace' = Append(trace, "command")
    /\ UNCHANGED <<file, branches, argVars, matched, exit_msg, written>>
    /\ UNCHANGED <<refVars, cmdVars, errVars, pollVars>>

SpecList == InitList /\ [][Load \/ ListCommand \/ Save]_vars

\* The line the listing prints for an entity of the current user's list
LineOf(pr) == <<"#">> \o NumberOf(pr).val \o <<":", " ">> \o SubjectOf(pr).val

\* The places of the current user's list that the listing matches when closed pull
\* requests are listed too: the number and the subject are there and the subject
\* contains the search.
ListHits == {at \in SubjectHits(ListSearch) : NumberOf(EntityAt(at)).exc = "none"}

\* C12: in the listing of the current user's pull requests, closed ones included,
\* an entity whose pull number or subject cannot be derived (a malformed reference,
\* a commit that is not a well-formed ghstack commit, a failed git query) is left
\* out and every other matching entity is printed: the listing is never aborted.
C12_BadEntitySkipped ==
    (/\ Occurs("command")
     /\ list_args.closed /\ ~list_args.all
     /\ \E k \in 1..Len(pulls) : pulls[k].user = user)
    => /\ result.exc = "none"
       /\ {result.val[i] : i \in 1..Len(result.val)} = {LineOf(EntityAt(at)) : at \in ListHits}

====
